---- MODULE Spec2Model ----
(***************************************************************************)
(* Model of DockerServices (src/index.js): the service lifecycle           *)
(* operations create / update / adjust / remove and the convergence        *)
(* monitor waitUntilRunning with its recursive checkTasks poll.            *)
(*                                                                         *)
(* One DockerServices object runs one operation at a time.  Each await of  *)
(* the source is one step; what the orchestrator answers (the task list,   *)
(* an error) is an input of the step.                                      *)
(***************************************************************************)
EXTENDS Integers, Sequences, FiniteSets

\* ---------------------------------------------------------------- bounds
NumTaskIds == 2          \* task identifiers the orchestrator hands out
MaxTasks == 2            \* longest task list one listTasks call returns
MaxWaitDelayOpt == 1     \* options.waitDelay ranges over 0 (absent), 1000, .. this * 1000
MaxMonitorForOpt == 1    \* options.monitorFor ranges over 0 (absent), 1000, .. this * 1000
MaxWaitTimeOpt == 2      \* options.waitTime ranges over 1000 .. this * 1000
MaxVersion == 1          \* cap on Version.Index of the modelled service

\* ------------------------------------------------- constructor defaults
DefaultWaitDelay == 2000
DefaultMonitorFor == 3000
DefaultWaitTime == 60000

\* ------------------------------------------------------------ the tasks
TaskIds == 1..NumTaskIds
\* The states the code tells apart: 'new' is read only next to 'pending' (in the
\* baseline filter) and is left out here; "shutdown" stands for every settled state
\* that is neither running nor a failure.
TaskStates == {"pending", "running", "failed", "rejected", "shutdown"}
Task == [ID : TaskIds, State : TaskStates]

\* What dockerClient.listTasks can answer: a list of tasks, no ID twice.
Snapshots ==
  {s \in UNION {[1..n -> Task] : n \in 0..MaxTasks} :
     \A i, j \in DOMAIN s : i # j => s[i].ID # s[j].ID}

\* ---------------------------------------------------- adjust's options
Absent == [t |-> "absent"]
Num(n) == [t |-> "number", n |-> n]
Bool(b) == [t |-> "boolean", b |-> b]
Str(s) == [t |-> "string", s |-> s]
Obj(m) == [t |-> "object", m |-> m]
Arr(a) == [t |-> "array", a |-> a]

\* An options object: the seven keys of the schema, and extra for a key the
\* schema does not name.
OptionKeys ==
  {"image", "env", "envRemove", "labels", "labelRemove", "replicas", "force", "extra"}
NoOptions == [k \in OptionKeys |-> Absent]

\* The options adjust is called with where only their validity matters.
AdjustOptions ==
  {[NoOptions EXCEPT !.replicas = r, !.force = f] :
     r \in {Absent, Num(2), Str("x")}, f \in {Absent, Bool(TRUE), Str("x")}}

\* A schema that lets keys it does not name pass.
validateError_AllowUnknown(options) ==
  \/ options.image.t \notin {"absent", "string"}
  \/ options.image.t = "string" /\ options.image.s = <<>>
  \/ options.env.t \notin {"absent", "object"}
  \/ options.envRemove.t \notin {"absent", "array"}
  \/ options.labels.t \notin {"absent", "object"}
  \/ options.labelRemove.t \notin {"absent", "array"}
  \/ options.replicas.t \notin {"absent", "number"}
  \/ options.force.t \notin {"absent", "boolean"}

\* Joi.validate(options, {image: Joi.string().optional(), env: Joi.object(), ...}):
\* each key of the schema, when present, has its type (a string is not empty),
\* and a key the schema does not name is an error (Joi's allowUnknown is off).
validateError(options) ==
  \/ options.image.t \notin {"absent", "string"}
  \/ options.image.t = "string" /\ options.image.s = <<>>
  \/ options.env.t \notin {"absent", "object"}
  \/ options.envRemove.t \notin {"absent", "array"}
  \/ options.labels.t \notin {"absent", "object"}
  \/ options.labelRemove.t \notin {"absent", "array"}
  \/ options.replicas.t \notin {"absent", "number"}
  \/ options.force.t \notin {"absent", "boolean"}
  \/ options.extra.t # "absent"

\* The second argument of waitUntilRunning: a boolean (create, update, a direct
\* call) or the array of task IDs adjust passes.
MonitorBool(b) == [t |-> "boolean", b |-> b]
MonitorArray(ids) == [t |-> "array", ids |-> ids]

\* JavaScript truthiness of that argument: every array, the empty one too, is truthy.
Truthy(m) == IF m.t = "boolean" THEN m.b ELSE TRUE

VARIABLES
  waitDelay, selfMonitorCount, maxWaitTimes,   \* this.waitDelay, this.monitorCount, this.maxWaitTimes
  serviceExists, version,                      \* the orchestrator's service and its Version.Index
  pc, opKind, detach, options,                 \* the running operation and its arguments
  pending, preIds, readVersion,                \* update/adjust: reads in flight, tasks and version read
  monitor,                                     \* waitUntilRunning's monitor argument
  existing, taskRunning, times, monitoring, monitorCount,   \* waitUntilRunning's locals
  result, error, verdict, failId, failState,   \* how the operation ended
  lastTasks, polls, calls, wurCalls, everNewRunning, allUnsettled,  \* history of the operation
  mPrev, mOpts, mSpec, mErr, mCount,           \* adjustSpec applied: spec before, options, spec after, throw, applications
  oSpec, oVersion, clients, applied            \* two callers: the orchestrator's spec and version, each caller, updates accepted

cfgVars == <<waitDelay, selfMonitorCount, maxWaitTimes>>
orchVars == <<serviceExists, version>>
opVars == <<pc, opKind, detach, options, pending, preIds, readVersion, monitor>>
sessVars == <<existing, taskRunning, times, monitoring, monitorCount>>
endVars == <<result, error, verdict, failId, failState>>
histVars == <<lastTasks, polls, calls, wurCalls, everNewRunning, allUnsettled>>
mergeVars == <<mPrev, mOpts, mSpec, mErr, mCount>>
twoVars == <<oSpec, oVersion, clients, applied>>
vars == <<cfgVars, orchVars, opVars, sessVars, endVars, histVars, mergeVars, twoVars>>

\* -------------------------------------------------------- constructor
\* options.x || default: an absent option and 0 both give the default.
OrDefault(opt, default) == IF opt = 0 THEN default ELSE opt

WaitDelayOpts == {1000 * k : k \in 0..MaxWaitDelayOpt}
MonitorForOpts == {1000 * k : k \in 0..MaxMonitorForOpt}
WaitTimeOpts == {1000 * k : k \in 1..MaxWaitTimeOpt}

NoMonitor == MonitorBool(FALSE)

\* No adjustSpec applied and no second caller: the part of the state the
\* operations of one caller leave alone.
MergeIdle ==
  /\ mPrev = Absent
  /\ mOpts = NoOptions
  /\ mSpec = Absent
  /\ mErr = FALSE
  /\ mCount = 0

TwoIdle ==
  /\ oSpec = Absent
  /\ oVersion = 0
  /\ clients = <<>>
  /\ applied = <<>>

Init ==
  /\ MergeIdle
  /\ TwoIdle
  /\ \E wd \in WaitDelayOpts, mf \in MonitorForOpts, wt \in WaitTimeOpts :
       /\ waitDelay = OrDefault(wd, DefaultWaitDelay)
       /\ selfMonitorCount = OrDefault(mf, DefaultMonitorFor) \div OrDefault(wd, DefaultWaitDelay)
       /\ maxWaitTimes = OrDefault(wt, DefaultWaitTime) \div OrDefault(wd, DefaultWaitDelay)
  /\ serviceExists = FALSE
  /\ version = 0
  /\ pc = "idle"
  /\ opKind = "none"
  /\ detach = FALSE
  /\ options = NoOptions
  /\ pending = {}
  /\ preIds = {}
  /\ readVersion = 0
  /\ monitor = NoMonitor
  /\ existing = {}
  /\ taskRunning = FALSE
  /\ times = 0
  /\ monitoring = FALSE
  /\ monitorCount = 0
  /\ result = "none"
  /\ error = "none"
  /\ verdict = "none"
  /\ failId = 0
  /\ failState = "none"
  /\ lastTasks = <<>>
  /\ polls = 0
  /\ calls = {}
  /\ wurCalls = 0
  /\ everNewRunning = FALSE
  /\ allUnsettled = TRUE


\* ------------------------------------------------- waitUntilRunning's helpers
\* existingTasks.filter(tsk => !['pending', 'new'].includes(tsk.Status.State)).map(tsk => tsk.ID)
Baseline(tasks) ==
  {tasks[i].ID : i \in {j \in DOMAIN tasks : tasks[j].State \notin {"pending", "new"}}}

\* existingTasks.map(t => t.ID) in adjust
TaskIdsOf(tasks) == {tasks[i].ID : i \in DOMAIN tasks}

\* A check that leaves the baseline out of account.
IsNewTask_Always(ex, id) == TRUE

\* The membership test without its negation.
IsNewTask_Inverted(ex, id) == id \in ex

\* !existing.includes(tsk.ID)
IsNewTask(ex, id) == id \notin ex

\* A check that forgets 'rejected'.
IsFailure_FailedOnly(state) == state = "failed"

\* tsk.Status.State === 'failed' || tsk.Status.State === 'rejected'
IsFailure(state) == state \in {"failed", "rejected"}

\* An assignment where the comparison was meant: true of every state.
IsRunning_Assigned(state) == TRUE

\* tsk.Status.State === 'running'
IsRunning(state) == state = "running"

\* tasks.forEach(...) of checkTasks from index i on: the throw ends the scan at
\* the first new task that failed; acc carries foundTasks and taskRunning.
RECURSIVE ScanFrom(_, _, _, _)
ScanFrom(tasks, i, ex, acc) ==
  IF i > Len(tasks) THEN acc
  ELSE IF ~IsNewTask(ex, tasks[i].ID) THEN ScanFrom(tasks, i + 1, ex, acc)
  ELSE IF IsFailure(tasks[i].State)
    THEN [acc EXCEPT !.foundTasks = TRUE, !.thrown = TRUE,
                     !.failId = tasks[i].ID, !.failState = tasks[i].State]
  ELSE ScanFrom(tasks, i + 1, ex,
                [acc EXCEPT !.foundTasks = TRUE,
                            !.taskRunning = acc.taskRunning \/ IsRunning(tasks[i].State)])

\* The flag declared inside checkTasks: every poll starts from false.
Scan_Fresh(tasks, ex, running) ==
  ScanFrom(tasks, 1, ex,
           [foundTasks |-> FALSE, taskRunning |-> FALSE, thrown |-> FALSE,
            failId |-> 0, failState |-> "none"])

Scan(tasks, ex, running) ==
  ScanFrom(tasks, 1, ex,
           [foundTasks |-> FALSE, taskRunning |-> running, thrown |-> FALSE,
            failId |-> 0, failState |-> "none"])

\* The comparison off by one.
TimedOut_AtMax(t, max, running) == t >= max /\ ~running

\* No poll budget at all.
TimedOut_Never(t, max, running) == FALSE

\* times > self.maxWaitTimes && !taskRunning
TimedOut(t, max, running) == t > max /\ ~running

\* The monitoring test inverted.
DoneMonitoring_Inverted(running, mon) == running /\ mon

\* taskRunning && !monitoring
DoneMonitoring(running, mon) == running /\ ~mon

\* The comparison strict.
MonitorEnough_Strict(count, threshold) == count > threshold

\* monitorCount >= self.monitorCount
MonitorEnough(count, threshold) == count >= threshold

\* The detach flag ignored.
ShouldMonitor_Always(d) == TRUE

\* if (!detach) in create and update
ShouldMonitor(d) == ~d

\* ------------------------------------------------------ how a step ends
\* A catch around the awaited call that returns instead of rethrowing, as
\* exists does: the operation resolves whatever happened.
End_Swallowed(res, err, verd) ==
  /\ pc' = "done"
  /\ result' = "resolved"
  /\ error' = err
  /\ verdict' = verd

\* The operation's promise settles: resolved, or rejected with an error.
End(res, err, verd) ==
  /\ pc' = "done"
  /\ result' = res
  /\ error' = err
  /\ verdict' = verd

\* this.waitUntilRunning(name, m) is called.
EnterMonitor(m) ==
  /\ pc' = "baseline"
  /\ monitor' = m
  /\ wurCalls' = wurCalls + 1
  /\ UNCHANGED <<result, error, verdict>>

\* The task lists the orchestrator can answer with: none while no service exists.
Answers == IF serviceExists THEN Snapshots ELSE {<<>>}

\* ----------------------------------------------------------- the calls
CallCreate ==
  /\ pc = "idle"
  /\ \E d \in BOOLEAN : detach' = d
  /\ opKind' = "create"
  /\ pc' = "createService"
  /\ UNCHANGED <<mergeVars, twoVars, cfgVars, orchVars, options, pending, preIds, readVersion, monitor,
                 sessVars, endVars, histVars>>

CallUpdate ==
  /\ pc = "idle"
  /\ version < MaxVersion
  /\ \E d \in BOOLEAN : detach' = d
  /\ opKind' = "update"
  /\ pc' = "reads"
  /\ pending' = {"tasks", "spec"}
  /\ UNCHANGED <<mergeVars, twoVars, cfgVars, orchVars, options, preIds, readVersion, monitor,
                 sessVars, endVars, histVars>>

\* adjust(name, options); scale(name, replicas) is adjust(name, {replicas}).
CallAdjust ==
  /\ pc = "idle"
  /\ version < MaxVersion
  /\ \E o \in AdjustOptions : options' = o
  /\ opKind' = "adjust"
  /\ pc' = "reads"
  /\ pending' = {"tasks", "spec"}
  /\ UNCHANGED <<mergeVars, twoVars, cfgVars, orchVars, detach, preIds, readVersion, monitor,
                 sessVars, endVars, histVars>>

CallWaitUntilRunning ==
  /\ pc = "idle"
  /\ opKind' = "waitUntilRunning"
  /\ \E m \in BOOLEAN : monitor' = MonitorBool(m)
  /\ pc' = "baseline"
  /\ wurCalls' = wurCalls + 1
  /\ UNCHANGED <<mergeVars, twoVars, cfgVars, orchVars, detach, options, pending, preIds, readVersion,
                 sessVars, endVars, lastTasks, polls, calls, everNewRunning, allUnsettled>>

CallRemove ==
  /\ pc = "idle"
  /\ opKind' = "remove"
  /\ pc' = "remove"
  /\ UNCHANGED <<mergeVars, twoVars, cfgVars, orchVars, detach, options, pending, preIds, readVersion, monitor,
                 sessVars, endVars, histVars>>

\* ------------------------------------------------------------- create
\* await this.dockerClient.createService(this.auth, spec), then if (!detach) the monitor.
CreateService ==
  /\ pc = "createService"
  /\ calls' = calls \cup {"createService"}
  /\ \/ /\ ~serviceExists
        /\ serviceExists' = TRUE
        /\ version' = 0
        /\ IF ShouldMonitor(detach)
             THEN EnterMonitor(MonitorBool(TRUE))
             ELSE End("resolved", "none", "none") /\ UNCHANGED <<monitor, wurCalls>>
     \/ /\ End("rejected", IF serviceExists THEN "AlreadyExists" ELSE "transport", "none")
        /\ UNCHANGED <<orchVars, monitor, wurCalls>>
  /\ UNCHANGED <<mergeVars, twoVars, cfgVars, opKind, detach, options, pending, preIds, readVersion,
                 sessVars, failId, failState, lastTasks, polls, everNewRunning, allUnsettled>>

\* ------------------------------------------------------------- remove
Remove ==
  /\ pc = "remove"
  /\ calls' = calls \cup {"remove"}
  /\ IF serviceExists
       THEN \/ serviceExists' = FALSE /\ version' = 0 /\ End("resolved", "none", "none")
            \/ UNCHANGED orchVars /\ End("rejected", "transport", "none")
       ELSE UNCHANGED orchVars /\ End("rejected", "NotFound", "none")
  /\ UNCHANGED <<mergeVars, twoVars, cfgVars, opKind, detach, options, pending, preIds, readVersion, monitor,
                 sessVars, failId, failState, lastTasks, polls, wurCalls, everNewRunning,
                 allUnsettled>>

\* --------------------------------------------------- update and adjust
\* After Promise.all([this.getTasks(name), this.get(name)]) is joined.
AfterReads == IF opKind = "adjust" THEN "adjustSpec" ELSE "submit"

\* this.getTasks(name) of the Promise.all answers.
ReadTasks ==
  /\ pc = "reads"
  /\ "tasks" \in pending
  /\ calls' = calls \cup {"listTasks"}
  /\ \/ /\ \E snap \in Answers : preIds' = TaskIdsOf(snap)
        /\ pending' = pending \ {"tasks"}
        /\ pc' = IF pending' = {} THEN AfterReads ELSE "reads"
        /\ UNCHANGED <<result, error, verdict>>
     \/ /\ End("rejected", "transport", "none")
        /\ UNCHANGED <<pending, preIds>>
  /\ UNCHANGED <<mergeVars, twoVars, cfgVars, orchVars, opKind, detach, options, readVersion, monitor,
                 sessVars, failId, failState, lastTasks, polls, wurCalls, everNewRunning,
                 allUnsettled>>

\* this.get(name) of the Promise.all answers: getService(name).inspect().
ReadSpec ==
  /\ pc = "reads"
  /\ "spec" \in pending
  /\ calls' = calls \cup {"inspect"}
  /\ \/ /\ serviceExists
        /\ readVersion' = version
        /\ pending' = pending \ {"spec"}
        /\ pc' = IF pending' = {} THEN AfterReads ELSE "reads"
        /\ UNCHANGED <<result, error, verdict>>
     \/ /\ End("rejected", IF serviceExists THEN "transport" ELSE "NotFound", "none")
        /\ UNCHANGED <<pending, readVersion>>
  /\ UNCHANGED <<mergeVars, twoVars, cfgVars, orchVars, opKind, detach, options, preIds, monitor,
                 sessVars, failId, failState, lastTasks, polls, wurCalls, everNewRunning,
                 allUnsettled>>

\* const newSpec = this.adjustSpec(spec, options): the validation and its throw.
AdjustSpecStep ==
  /\ pc = "adjustSpec"
  /\ IF validateError(options)
       THEN End("rejected", "validation", "none")
       ELSE pc' = "submit" /\ UNCHANGED <<result, error, verdict>>
  /\ options' = NoOptions        \* adjust does not read its options again
  /\ UNCHANGED <<mergeVars, twoVars, cfgVars, orchVars, opKind, detach, pending, preIds, readVersion,
                 monitor, sessVars, failId, failState, histVars>>

\* await service.update(spec) with spec.version the Version.Index read before;
\* the orchestrator accepts it only if that is still the service's version.
Submit ==
  /\ pc = "submit"
  /\ calls' = calls \cup {"update"}
  /\ \/ /\ readVersion = version
        /\ version' = version + 1
        /\ UNCHANGED serviceExists
        /\ IF opKind = "adjust"
             THEN EnterMonitor(MonitorArray(preIds))
             ELSE IF ShouldMonitor(detach)
               THEN EnterMonitor(MonitorBool(TRUE))
               ELSE End("resolved", "none", "none") /\ UNCHANGED <<monitor, wurCalls>>
     \/ /\ End("rejected", IF readVersion = version THEN "transport" ELSE "VersionConflict",
               "none")
        /\ UNCHANGED <<orchVars, monitor, wurCalls>>
  /\ readVersion' = 0            \* originalSpec is not read again
  /\ UNCHANGED <<mergeVars, twoVars, cfgVars, opKind, detach, options, pending, preIds,
                 sessVars, failId, failState, lastTasks, polls, everNewRunning, allUnsettled>>

\* Another client of the orchestrator updates the service between this
\* operation's read of the version and its submission.
ExternalUpdate ==
  /\ pc \in {"reads", "adjustSpec", "submit"}
  /\ serviceExists
  /\ version < MaxVersion
  /\ version' = version + 1
  /\ UNCHANGED <<mergeVars, twoVars, cfgVars, serviceExists, opVars, sessVars, endVars, histVars>>


\* ------------------------------------------------------ waitUntilRunning
\* const existingTasks = await this.getTasks(name); existing = ...; the locals.
CaptureBaseline ==
  /\ pc = "baseline"
  /\ calls' = calls \cup {"listTasks"}
  /\ \/ /\ \E snap \in Answers : existing' = Baseline(snap)
        /\ taskRunning' = FALSE
        /\ times' = 0
        /\ monitoring' = Truthy(monitor)
        /\ monitorCount' = 0
        /\ pc' = "wait"
        /\ UNCHANGED <<result, error, verdict>>
     \/ /\ End("rejected", "transport", "ERROR")
        /\ UNCHANGED sessVars
  /\ UNCHANGED <<mergeVars, twoVars, cfgVars, orchVars, opKind, detach, options, pending, preIds, readVersion,
                 monitor, failId, failState, lastTasks, polls, wurCalls, everNewRunning,
                 allUnsettled>>

\* await wait(this.waitDelay), before the first checkTasks and between two.
Wait ==
  /\ pc = "wait"
  /\ pc' = "check"
  /\ calls' = calls \cup {"wait"}
  /\ UNCHANGED <<mergeVars, twoVars, cfgVars, orchVars, opKind, detach, options, pending, preIds, readVersion,
                 monitor, sessVars, endVars, lastTasks, polls, wurCalls, everNewRunning,
                 allUnsettled>>

\* The new tasks of a task list, as the history records them.
NewOnes(tasks, ex) == {i \in DOMAIN tasks : tasks[i].ID \notin ex}

\* One run of checkTasks: the fetch, the scan, the counters and the verdict.
CheckTasks ==
  /\ pc = "check"
  /\ calls' = calls \cup {"listTasks"}
  /\ \/ \E snap \in Answers :
          LET r == Scan(snap, existing, taskRunning)
              t == times + 1
              count == monitorCount + 1
          IN
          /\ lastTasks' = snap
          /\ polls' = polls + 1
          /\ everNewRunning' =
               (everNewRunning \/ \E i \in NewOnes(snap, existing) : snap[i].State = "running")
          /\ allUnsettled' =
               /\ allUnsettled
               /\ NewOnes(snap, existing) # {}
               /\ \A i \in NewOnes(snap, existing) : snap[i].State \in {"pending", "new"}
          /\ taskRunning' = r.taskRunning
          /\ IF r.thrown THEN
               /\ End("rejected", "task_failed", "FAILED")
               /\ failId' = r.failId
               /\ failState' = r.failState
               /\ UNCHANGED <<times, monitoring, monitorCount>>
             ELSE IF ~r.foundTasks THEN
               /\ End("resolved", "none", "NO_NEW_TASKS")
               /\ UNCHANGED <<times, monitoring, monitorCount, failId, failState>>
             ELSE
               /\ times' = t
               /\ UNCHANGED <<failId, failState>>
               /\ IF TimedOut(t, maxWaitTimes, r.taskRunning) THEN
                    /\ End("rejected", "timeout", "TIMED_OUT")
                    /\ UNCHANGED <<monitoring, monitorCount>>
                  ELSE IF DoneMonitoring(r.taskRunning, monitoring) THEN
                    /\ End("resolved", "none", "CONVERGED")
                    /\ UNCHANGED <<monitoring, monitorCount>>
                  ELSE
                    /\ IF r.taskRunning /\ monitoring
                         THEN /\ monitorCount' = count
                              /\ monitoring' = ~MonitorEnough(count, selfMonitorCount)
                         ELSE UNCHANGED <<monitoring, monitorCount>>
                    /\ pc' = "wait"
                    /\ UNCHANGED <<result, error, verdict>>
     \/ /\ End("rejected", "transport", "ERROR")
        /\ UNCHANGED <<sessVars, failId, failState, lastTasks, polls, everNewRunning,
                       allUnsettled>>
  /\ UNCHANGED <<mergeVars, twoVars, cfgVars, orchVars, opKind, detach, options, pending, preIds, readVersion,
                 monitor, existing, wurCalls>>

\* The caller has the operation's outcome; the object is ready for the next call.
Return ==
  /\ pc = "done"
  /\ pc' = "idle"
  /\ opKind' = "none"
  /\ detach' = FALSE
  /\ options' = NoOptions
  /\ pending' = {}
  /\ preIds' = {}
  /\ readVersion' = 0
  /\ monitor' = NoMonitor
  /\ existing' = {}
  /\ taskRunning' = FALSE
  /\ times' = 0
  /\ monitoring' = FALSE
  /\ monitorCount' = 0
  /\ result' = "none"
  /\ error' = "none"
  /\ verdict' = "none"
  /\ failId' = 0
  /\ failState' = "none"
  /\ lastTasks' = <<>>
  /\ polls' = 0
  /\ calls' = {}
  /\ wurCalls' = 0
  /\ everNewRunning' = FALSE
  /\ allUnsettled' = TRUE
  /\ UNCHANGED <<mergeVars, twoVars, cfgVars, orchVars>>

Next ==
  \/ CallCreate
  \/ CallUpdate
  \/ CallAdjust
  \/ CallWaitUntilRunning
  \/ CallRemove
  \/ CreateService
  \/ Remove
  \/ ReadTasks
  \/ ReadSpec
  \/ AdjustSpecStep
  \/ Submit
  \/ ExternalUpdate
  \/ CaptureBaseline
  \/ Wait
  \/ CheckTasks
  \/ Return

Spec == Init /\ [][Next]_vars


\* =================================================================== claims
\* What the last polled task list shows, read off the list itself.
NewFailures == {i \in NewOnes(lastTasks, existing) : lastTasks[i].State \in {"failed", "rejected"}}
NewRunning == {i \in NewOnes(lastTasks, existing) : lastTasks[i].State = "running"}
Monitoring == wurCalls = 1 /\ pc \in {"wait", "check", "done"}
Polled == Monitoring /\ polls > 0

\* C1: a poll whose task list holds a task outside the baseline in state failed
\* or rejected ends the monitor in that poll, rejected with a failure that names
\* such a task's ID and state, whatever the order of the list and whatever is or
\* was running; after the failure no call is made to the orchestrator.
C1_FailureEndsThePoll ==
  /\ [](Polled /\ NewFailures # {} =>
          /\ pc = "done"
          /\ result = "rejected"
          /\ verdict = "FAILED"
          /\ \E i \in NewFailures : lastTasks[i].ID = failId /\ lastTasks[i].State = failState)
  /\ [][verdict = "FAILED" => (calls' = calls /\ polls' = polls) \/ pc' = "idle"]_vars

\* A failure found behind a running new task, the flag set in an earlier poll.
C1_Witness ==
  /\ Polled
  /\ polls >= 2
  /\ Len(lastTasks) = 2
  /\ NewOnes(lastTasks, existing) = {1, 2}
  /\ lastTasks[1].State = "running"
  /\ lastTasks[2].State = "rejected"
  /\ verdict = "FAILED"
  /\ failId = lastTasks[2].ID
  /\ failState = "rejected"

\* C2: with monitor = false the monitor ends as CONVERGED in the first poll that
\* shows a running task outside the baseline and no failed one, and does not poll
\* again: it never waits with the flag set, and each of its polls was counted.
C2_ConvergesAtFirstRunning ==
  (Polled /\ ~Truthy(monitor)) =>
    /\ (NewRunning # {} /\ NewFailures = {}) =>
         (pc = "done" /\ result = "resolved" /\ verdict = "CONVERGED")
    /\ pc \in {"wait", "check"} => ~taskRunning
    /\ verdict = "CONVERGED" => (polls = times /\ NewRunning # {})

\* Baseline {t1}; t2 not running in cycle 1, running in cycle 2: done after 2 polls.
C2_Witness ==
  /\ Polled
  /\ ~Truthy(monitor)
  /\ existing = {1}
  /\ polls = 2
  /\ times = 2
  /\ \E i \in DOMAIN lastTasks : lastTasks[i] = [ID |-> 2, State |-> "running"]
  /\ verdict = "CONVERGED"
  /\ result = "resolved"

\* C3 as stated: with the new tasks unsettled in every poll, the timeout comes in
\* poll number maxWaitTimes.
C3_TimeoutAtMaxWaitTimes ==
  (Polled /\ allUnsettled /\ maxWaitTimes >= 1 /\ verdict # "ERROR") =>
    /\ polls = maxWaitTimes => verdict = "TIMED_OUT"
    /\ verdict = "TIMED_OUT" => polls = maxWaitTimes

\* C3 amended: with the new tasks unsettled in every poll, the monitor goes on
\* through poll number maxWaitTimes and times out in poll maxWaitTimes + 1.
C3_TimeoutAfterMaxWaitTimes ==
  (Polled /\ allUnsettled /\ verdict # "ERROR") =>
    IF polls <= maxWaitTimes
      THEN pc \in {"wait", "check"} /\ verdict = "none"
      ELSE /\ polls = maxWaitTimes + 1
           /\ times = maxWaitTimes + 1
           /\ pc = "done"
           /\ result = "rejected"
           /\ error = "timeout"
           /\ verdict = "TIMED_OUT"

C3_Witness ==
  /\ Polled
  /\ allUnsettled
  /\ maxWaitTimes = 2
  /\ polls = 3
  /\ verdict = "TIMED_OUT"


\* C4 as stated: with monitoring requested, the poll in which the
\* post-convergence counter reaches self.monitorCount ends the monitor.
C4_StopsWhenCounterReachesThreshold ==
  (Monitoring /\ Truthy(monitor) /\ taskRunning
     /\ monitorCount >= 1 /\ monitorCount >= selfMonitorCount) =>
    pc = "done"

\* C4 amended: with monitoring requested, a poll that leaves the flag set while
\* monitoring is on counts, and the poll in which the counter reaches
\* self.monitorCount switches monitoring off and goes on to wait; the monitor
\* never ends as CONVERGED in a poll it entered with monitoring on, and the one
\* poll after the switch ends it.
C4_OneMorePollAfterThreshold ==
  /\ []((Monitoring /\ Truthy(monitor) /\ taskRunning /\ pc \in {"wait", "check"}) =>
          /\ monitorCount >= 1
          /\ monitoring <=> monitorCount < selfMonitorCount)
  /\ []((Monitoring /\ Truthy(monitor) /\ verdict = "CONVERGED") =>
          /\ ~monitoring
          /\ monitorCount >= 1
          /\ monitorCount >= selfMonitorCount
          /\ polls >= monitorCount + 1)
  /\ [][(pc = "check" /\ Truthy(monitor) /\ monitoring) => verdict' # "CONVERGED"]_vars
  /\ [][(pc = "check" /\ Truthy(monitor) /\ ~monitoring) => pc' = "done"]_vars
  /\ [][(pc = "check" /\ monitoring /\ pc' = "wait" /\ taskRunning') =>
          monitorCount' = monitorCount + 1]_vars

\* Three counted polls under a threshold of three, then the poll that ends it.
C4_Witness ==
  /\ Monitoring
  /\ Truthy(monitor)
  /\ selfMonitorCount = 3
  /\ monitorCount = 3
  /\ polls = 4
  /\ verdict = "CONVERGED"

\* C5: tasks of the baseline never influence the session: a failure names a task
\* outside the baseline, the flag is set only after a poll showed a running task
\* outside the baseline, and a poll that shows baseline tasks only ends as one
\* that found no new task.
C5_BaselineTasksIgnored ==
  Polled =>
    /\ verdict = "FAILED" => failId \notin existing
    /\ taskRunning => everNewRunning
    /\ (NewOnes(lastTasks, existing) = {} /\ verdict # "ERROR") =>
         (pc = "done" /\ result = "resolved" /\ verdict = "NO_NEW_TASKS")

\* A poll shows one baseline task failed and one running; nothing comes of it.
C5_Witness ==
  /\ Polled
  /\ existing = {1, 2}
  /\ \E i, j \in DOMAIN lastTasks :
       /\ lastTasks[i].State = "failed"
       /\ lastTasks[j].State = "running"
  /\ ~taskRunning
  /\ verdict = "NO_NEW_TASKS"


\* C6 as stated: in update and adjust the monitor's baseline is the set of task
\* IDs fetched before the update was submitted.
C6_BaselineIsThePrefetchedTasks ==
  (opKind \in {"update", "adjust"} /\ wurCalls = 1 /\ pc \in {"wait", "check"}) =>
    existing = preIds

\* C7 as stated: after create the monitor's baseline is empty, so a task of the
\* new service that is failed or rejected when polled yields FAILED and one that
\* is running sets the flag.
C7_CreateMonitorsWithEmptyBaseline ==
  (opKind = "create" /\ wurCalls = 1 /\ pc \in {"wait", "check", "done"}) =>
    /\ existing = {}
    /\ (polls > 0 /\ verdict # "ERROR") =>
         /\ (\E i \in DOMAIN lastTasks : lastTasks[i].State \in {"failed", "rejected"}) =>
              verdict = "FAILED"
         /\ (\E i \in DOMAIN lastTasks : lastTasks[i].State = "running") =>
              (taskRunning \/ verdict = "FAILED")

\* C8: a detached create or update never enters the monitor: no baseline fetch,
\* no wait, no poll, and it resolves as soon as the orchestrator has accepted the
\* call; not detached, the monitor is entered once, after the orchestrator's
\* call, and never without it.
C8_DetachSkipsTheMonitor ==
  opKind \in {"create", "update"} =>
    /\ detach =>
         /\ wurCalls = 0
         /\ polls = 0
         /\ pc \notin {"baseline", "wait", "check"}
         /\ "wait" \notin calls
         /\ opKind = "create" => "listTasks" \notin calls
         /\ verdict = "none"
         /\ (pc = "done" /\ error = "none") => result = "resolved"
    /\ ~detach =>
         /\ wurCalls <= 1
         /\ (pc = "done" /\ result = "resolved") => wurCalls = 1
         /\ wurCalls = 1 =>
              IF opKind = "create" THEN "createService" \in calls ELSE "update" \in calls
         /\ (pc = "done" /\ wurCalls = 0) => result = "rejected"

\* A detached update the orchestrator accepted.
C8_Witness ==
  /\ opKind = "update"
  /\ detach
  /\ pc = "done"
  /\ result = "resolved"
  /\ "update" \in calls
  /\ version = 1

\* C9 as stated: an operation that ran the monitor resolves only if a task
\* outside the baseline was seen running.
C9_ResolvesOnlyIfConverged ==
  (pc = "done" /\ wurCalls = 1) =>
    IF result = "resolved"
      THEN everNewRunning
      ELSE result = "rejected" /\ error \in {"task_failed", "timeout", "transport"}

\* C9 amended: an operation that ran the monitor resolves only if a task outside
\* the baseline was seen running, or if its last poll showed no task outside the
\* baseline; otherwise it is rejected, with the task's failure, the timeout or
\* the error of the orchestrator's call.
C9_ResolvesIfConvergedOrNothingNew ==
  (pc = "done" /\ wurCalls = 1) =>
    IF result = "resolved"
      THEN \/ verdict = "CONVERGED" /\ taskRunning /\ everNewRunning
           \/ /\ verdict = "NO_NEW_TASKS"
              /\ polls > 0
              /\ NewOnes(lastTasks, existing) = {}
      ELSE /\ result = "rejected"
           /\ error \in {"task_failed", "timeout", "transport"}
           /\ verdict \in {"FAILED", "TIMED_OUT", "ERROR"}

\* An adjust resolves in its second poll, no new task ever seen running.
C9_Witness ==
  /\ opKind = "adjust"
  /\ pc = "done"
  /\ result = "resolved"
  /\ polls = 2
  /\ ~everNewRunning
  /\ lastTasks # <<>>
  /\ verdict = "NO_NEW_TASKS"

\* C10 as stated: adjust's validation error comes before any call to the
\* orchestrator.
C10_ValidationBeforeAnyCall ==
  error = "validation" => calls \cap {"listTasks", "inspect", "update"} = {}


\* C12: in update and adjust a failure of the task fetch, of the spec fetch or
\* of the update call rejects the operation with that error (not found for a
\* missing service, version conflict for a stale version), the update is
\* submitted at most once, and the monitor is not started.
C12_CallFailureRejectsWithoutMonitor ==
  /\ []((opKind \in {"update", "adjust"} /\ verdict = "none"
           /\ error \in {"NotFound", "VersionConflict", "transport"}) =>
          /\ pc = "done"
          /\ result = "rejected"
          /\ wurCalls = 0
          /\ polls = 0
          /\ "wait" \notin calls)
  /\ [][(pc = "reads" /\ ~serviceExists /\ "inspect" \in calls' /\ "inspect" \notin calls) =>
          (pc' = "done" /\ result' = "rejected" /\ error' = "NotFound")]_vars
  /\ [][(pc = "submit" /\ readVersion # version /\ pc' # "submit") =>
          (pc' = "done" /\ result' = "rejected" /\ error' = "VersionConflict"
             /\ version' = version /\ wurCalls' = 0)]_vars
  /\ [][("update" \in calls /\ pc' # "idle") => (pc' # "submit" /\ version' = version)]_vars

\* An adjust whose update the orchestrator refused for its stale version.
C12_Witness ==
  /\ opKind = "adjust"
  /\ pc = "done"
  /\ error = "VersionConflict"
  /\ result = "rejected"
  /\ "update" \in calls
  /\ wurCalls = 0

\* C16: a poll whose task list holds no task outside the baseline ends the
\* monitor in that poll, resolved and without an error, with the poll counter,
\* the post-convergence counter and the flags as they were, and with no fetch or
\* wait after it.
C16_NoNewTasksEndsThePoll ==
  /\ [][(pc = "check" /\ polls' = polls + 1 /\ NewOnes(lastTasks', existing) = {}) =>
          /\ pc' = "done"
          /\ result' = "resolved"
          /\ error' = "none"
          /\ verdict' = "NO_NEW_TASKS"
          /\ times' = times
          /\ monitorCount' = monitorCount
          /\ taskRunning' = taskRunning
          /\ monitoring' = monitoring]_vars
  /\ [][verdict = "NO_NEW_TASKS" => (calls' = calls /\ polls' = polls) \/ pc' = "idle"]_vars

\* The flag set, a poll counted and monitoring still on, then a poll with nothing new.
C16_Witness ==
  /\ Polled
  /\ verdict = "NO_NEW_TASKS"
  /\ taskRunning
  /\ monitoring
  /\ times >= 1
  /\ monitorCount >= 1
  /\ lastTasks # <<>>

\* maxWaitTimes + 1 + max(monitorCount, 1)
PollBound == maxWaitTimes + 1 + (IF selfMonitorCount > 1 THEN selfMonitorCount ELSE 1)

\* C19: whatever task lists the orchestrator answers, waitUntilRunning polls at
\* most maxWaitTimes + 1 + max(monitorCount, 1) times: while it is not done its
\* next step can be taken and a poll is still left within the bound, and when it is
\* done it has a verdict.
C19_PollsAreBounded ==
  /\ (wurCalls = 1 /\ pc \in {"baseline", "wait", "check"}) =>
       /\ polls < PollBound
       /\ verdict = "none"
       /\ ENABLED (CaptureBaseline \/ Wait \/ CheckTasks)
  /\ (wurCalls = 1 /\ pc = "done") =>
       /\ polls <= PollBound
       /\ verdict \in {"CONVERGED", "NO_NEW_TASKS", "FAILED", "TIMED_OUT", "ERROR"}

\* The longest session: the first running task in the last poll of the budget,
\* three counted polls, and the poll that ends it.
C19_Witness ==
  /\ wurCalls = 1
  /\ pc = "done"
  /\ selfMonitorCount = 3
  /\ polls = PollBound
  /\ verdict = "CONVERGED"

\* C20: within a session the task-running flag, once true, stays true, and the
\* poll counter and the post-convergence counter never decrease; a timeout comes
\* only when no poll showed a running task outside the baseline, and the
\* post-convergence counter is positive only with the flag true.
C20_FlagAndCountersMonotonic ==
  /\ [][(pc \in {"wait", "check"} /\ pc' \in {"wait", "check", "done"}) =>
          /\ taskRunning => taskRunning'
          /\ times' >= times
          /\ monitorCount' >= monitorCount]_vars
  /\ [](Monitoring =>
          /\ verdict = "TIMED_OUT" => (~everNewRunning /\ ~taskRunning)
          /\ monitorCount > 0 => taskRunning)

\* The flag is set and the last poll showed the new tasks, none of them running.
C20_Witness ==
  /\ Polled
  /\ pc = "wait"
  /\ taskRunning
  /\ polls >= 2
  /\ NewOnes(lastTasks, existing) # {}
  /\ NewRunning = {}


\* ================================================================ adjustSpec
\* A service spec, its nesting flattened: Image, Env and Labels are those of
\* TaskTemplate.ContainerSpec, Replicas is Mode.Replicated.Replicas, ForceUpdate
\* is TaskTemplate.ForceUpdate.  A string is the sequence of its characters; a
\* JavaScript object is the sequence of its [k, v] entries in insertion order.
MaxApplications == 2     \* adjustSpec is applied at most this often in a row
MaxOptionKeys == 2       \* an options object has at most this many keys

KeyA == <<"A">>
KeyB == <<"B">>
EnvKeys == {KeyA, KeyB}
KeyOrder == <<KeyA, KeyB>>        \* the order an options object lists its keys in

\* utils.arrToObj and utils.objToArr (lib/utils) and aug's assignment -----------
FirstIndex(str, c) ==
  IF \E i \in DOMAIN str : str[i] = c
    THEN CHOOSE i \in DOMAIN str : str[i] = c /\ \A j \in 1..(i - 1) : str[j] # c
    ELSE 0

\* obj[k] = v
SetKey(obj, k, v) ==
  IF \E i \in DOMAIN obj : obj[i].k = k
    THEN [i \in DOMAIN obj |-> IF obj[i].k = k THEN [k |-> k, v |-> v] ELSE obj[i]]
    ELSE Append(obj, [k |-> k, v |-> v])

\* delete obj[k]
RECURSIVE DeleteKey(_, _)
DeleteKey(obj, k) ==
  IF obj = <<>> THEN <<>>
  ELSE IF Head(obj).k = k THEN DeleteKey(Tail(obj), k)
  ELSE <<Head(obj)>> \o DeleteKey(Tail(obj), k)

\* 'KEY=VALUE' read as a key and a value, split at the first '='
ParseEntry(str) ==
  LET p == FirstIndex(str, "=") IN
  IF p = 0 THEN [k |-> str, v |-> <<>>]
  ELSE [k |-> SubSeq(str, 1, p - 1), v |-> SubSeq(str, p + 1, Len(str))]

RECURSIVE arrToObjFrom(_, _)
arrToObjFrom(arr, obj) ==
  IF arr = <<>> THEN obj
  ELSE LET e == ParseEntry(Head(arr)) IN arrToObjFrom(Tail(arr), SetKey(obj, e.k, e.v))

arrToObj(arr) == arrToObjFrom(arr, <<>>)

objToArr(obj) == [i \in DOMAIN obj |-> obj[i].k \o <<"=">> \o obj[i].v]

\* aug(target, source): the keys of source assigned onto target, source winning;
\* source is a function from its keys, read in KeyOrder.
RECURSIVE augFrom(_, _, _)
augFrom(target, source, i) ==
  IF i > Len(KeyOrder) THEN target
  ELSE IF KeyOrder[i] \in DOMAIN source
    THEN augFrom(SetKey(target, KeyOrder[i], source[KeyOrder[i]]), source, i + 1)
  ELSE augFrom(target, source, i + 1)

aug(target, source) == augFrom(target, source, 1)

\* list.forEach((e) => delete merged[e])
RECURSIVE DeleteAll(_, _)
DeleteAll(obj, list) ==
  IF list = <<>> THEN obj ELSE DeleteAll(DeleteKey(obj, Head(list)), Tail(list))

\* the steps of adjustSpec ---------------------------------------------------
\* if (options.x): an absent key, 0, '' and false are falsy
Present(v) ==
  CASE v.t = "absent" -> FALSE
    [] v.t = "number" -> v.n # 0
    [] v.t = "boolean" -> v.b
    [] v.t = "string" -> v.s # <<>>
    [] OTHER -> TRUE

\* image.split('@')[0]
BeforeAt(image) ==
  LET p == FirstIndex(image, "@") IN IF p = 0 THEN image ELSE SubSeq(image, 1, p - 1)

AdjustImage(spec, o) ==
  IF Present(o.image) THEN [spec EXCEPT !.Image = o.image.s] ELSE spec

\* The removal done before the overlay.
AdjustEnv_RemoveFirst(spec, o) ==
  IF Present(o.env) \/ Present(o.envRemove)
    THEN LET env == arrToObj(IF spec.Env.t = "absent" THEN <<>> ELSE spec.Env.a)
             removed == IF Present(o.envRemove) THEN DeleteAll(env, o.envRemove.a) ELSE env
             merged == IF Present(o.env) THEN aug(removed, o.env.m) ELSE removed
         IN [spec EXCEPT !.Env = Arr(objToArr(merged))]
    ELSE spec

AdjustEnv(spec, o) ==
  IF Present(o.env) \/ Present(o.envRemove)
    THEN LET env == arrToObj(IF spec.Env.t = "absent" THEN <<>> ELSE spec.Env.a)
             merged == IF Present(o.env) THEN aug(env, o.env.m) ELSE env
             kept == IF Present(o.envRemove) THEN DeleteAll(merged, o.envRemove.a) ELSE merged
         IN [spec EXCEPT !.Env = Arr(objToArr(kept))]
    ELSE spec

AdjustLabels(spec, o) ==
  IF Present(o.labels) \/ Present(o.labelRemove)
    THEN LET merged == IF Present(o.labels) THEN aug(spec.Labels, o.labels.m) ELSE spec.Labels
             kept == IF Present(o.labelRemove) THEN DeleteAll(merged, o.labelRemove.a) ELSE merged
         IN [spec EXCEPT !.Labels = kept]
    ELSE spec

AdjustReplicas(spec, o) ==
  IF Present(o.replicas) THEN [spec EXCEPT !.Replicas = o.replicas] ELSE spec

\* The counter set to one instead of counted up.
AdjustForce_SetToOne(spec, o) ==
  IF Present(o.force)
    THEN [spec EXCEPT !.ForceUpdate = Num(1), !.Image = BeforeAt(spec.Image)]
    ELSE spec

AdjustForce(spec, o) ==
  IF Present(o.force)
    THEN [spec EXCEPT
            !.ForceUpdate = Num((IF Present(spec.ForceUpdate) THEN spec.ForceUpdate.n ELSE 0) + 1),
            !.Image = BeforeAt(spec.Image)]
    ELSE spec

\* adjustSpec(spec, options): the validation's throw, or the five steps in order.
adjustSpec(spec, o) ==
  IF validateError(o)
    THEN [error |-> TRUE, spec |-> spec]
    ELSE [error |-> FALSE,
          spec |-> AdjustForce(AdjustReplicas(AdjustLabels(AdjustEnv(AdjustImage(spec, o), o), o), o), o)]


\* ------------------------------------------- adjustSpec applied to a spec
MaxReplicas == 2         \* scale is called with 0 .. this many replicas

mainVars == <<cfgVars, orchVars, opVars, sessVars, endVars, histVars>>

\* A DockerServices object built with no options and with no operation running.
MainIdle ==
  /\ waitDelay = DefaultWaitDelay
  /\ selfMonitorCount = DefaultMonitorFor \div DefaultWaitDelay
  /\ maxWaitTimes = DefaultWaitTime \div DefaultWaitDelay
  /\ serviceExists = FALSE
  /\ version = 0
  /\ pc = "idle"
  /\ opKind = "none"
  /\ detach = FALSE
  /\ options = NoOptions
  /\ pending = {}
  /\ preIds = {}
  /\ readVersion = 0
  /\ monitor = NoMonitor
  /\ existing = {}
  /\ taskRunning = FALSE
  /\ times = 0
  /\ monitoring = FALSE
  /\ monitorCount = 0
  /\ result = "none"
  /\ error = "none"
  /\ verdict = "none"
  /\ failId = 0
  /\ failState = "none"
  /\ lastTasks = <<>>
  /\ polls = 0
  /\ calls = {}
  /\ wurCalls = 0
  /\ everNewRunning = FALSE
  /\ allUnsettled = TRUE

Chars(k, v) == k \o <<"=">> \o v

\* The specs adjustSpec is given.
MergeImages == {<<"a">>, <<"a", "@", "b">>, <<"d", "@", "b", "@", "c">>}
MergeEnvs ==
  {Absent, Arr(<<Chars(KeyA, <<"0">>), Chars(KeyB, <<"2">>)>>), Arr(<<Chars(KeyB, <<"2">>)>>)}
MergeLabels == {<<>>, <<[k |-> KeyA, v |-> <<"0">>]>>}
MergeSpecs ==
  [Image : MergeImages, Env : MergeEnvs, Labels : MergeLabels,
   Replicas : {Absent, Num(3)}, ForceUpdate : {Absent, Num(3)}]

\* The options it is given: every choice of at most MaxOptionKeys keys.
FullOptions ==
  [image : {Absent, Str(<<"b">>), Str(<<"b", "@", "c">>)},
   env : {Absent, Obj([k \in {KeyA} |-> <<"1">>]), Obj([k \in {KeyA, KeyB} |-> <<"1">>])},
   envRemove : {Absent, Arr(<<KeyB>>), Arr(<<KeyA>>)},
   labels : {Absent, Obj([k \in {KeyB} |-> <<"1">>])},
   labelRemove : {Absent, Arr(<<KeyA>>)},
   replicas : {Absent, Num(0), Num(2), Str("x")},
   force : {Absent, Bool(TRUE)},
   extra : {Absent, Str("x")}]
KeysOf(o) == {k \in OptionKeys : o[k].t # "absent"}
MergeOptions == {o \in FullOptions : Cardinality(KeysOf(o)) <= MaxOptionKeys}

MergeInit ==
  /\ MainIdle
  /\ TwoIdle
  /\ mSpec \in MergeSpecs
  /\ mPrev = mSpec
  /\ mOpts = NoOptions
  /\ mErr = FALSE
  /\ mCount = 0

\* adjustSpec(spec, o) called on the current spec: it changes the spec in place,
\* or throws and leaves it as it was.
Apply(o) ==
  LET r == adjustSpec(mSpec, o) IN
  /\ mPrev' = mSpec
  /\ mOpts' = o
  /\ mSpec' = r.spec
  /\ mErr' = r.error
  /\ mCount' = mCount + 1
  /\ UNCHANGED <<mainVars, twoVars>>

ApplyAdjustSpec ==
  \E o \in MergeOptions :
    /\ mCount < MaxApplications
    /\ Apply(o)

\* scale(name, replicas): adjust(name, { replicas })
ApplyScale ==
  \E n \in 0..MaxReplicas :
    /\ mCount < MaxApplications
    /\ Apply([NoOptions EXCEPT !.replicas = Num(n)])

MergeNext == ApplyAdjustSpec \/ ApplyScale

MergeSpec == MergeInit /\ [][MergeNext]_vars

\* ---------------------------------------------------- claims on adjustSpec
Applied == mCount >= 1
ForceOnly(o) == o = [NoOptions EXCEPT !.force = Bool(TRUE)]
ForceCount(spec) == IF spec.ForceUpdate.t = "absent" THEN 0 ELSE spec.ForceUpdate.n
Range(seq) == {seq[i] : i \in DOMAIN seq}

\* short is long cut before its first '@'
CutAtFirstAt(short, long) ==
  /\ Len(short) <= Len(long)
  /\ \A i \in DOMAIN short : short[i] = long[i] /\ short[i] # "@"
  /\ Len(short) < Len(long) => long[Len(short) + 1] = "@"

\* C13: adjustSpec with force: true counts ForceUpdate up by one (an absent
\* counter is 0) and cuts the image before its first '@'; applied twice in a row
\* the counter is up by two and the second application leaves the image alone.
C13_ForceTwice ==
  [][(mCount' = mCount + 1 /\ ForceOnly(mOpts')) =>
       /\ ~mErr'
       /\ ForceCount(mSpec') = ForceCount(mSpec) + 1
       /\ CutAtFirstAt(mSpec'.Image, mSpec.Image)
       /\ mSpec'.Env = mSpec.Env
       /\ mSpec'.Labels = mSpec.Labels
       /\ mSpec'.Replicas = mSpec.Replicas
       /\ (ForceOnly(mOpts) /\ ~mErr) =>
            /\ ForceCount(mSpec') = ForceCount(mPrev) + 2
            /\ CutAtFirstAt(mSpec.Image, mPrev.Image)
            /\ mSpec'.Image = mSpec.Image]_vars

\* No counter and two '@' at the start, force applied twice.
C13_Witness ==
  /\ mCount = 2
  /\ ForceOnly(mOpts)
  /\ mSpec.ForceUpdate = Num(2)
  /\ mSpec.Image = <<"d">>
  /\ mPrev.Image = <<"d">>
  /\ mPrev.ForceUpdate = Num(1)

\* C14 as stated: for every replica count in the options, 0 too, the spec
\* adjustSpec returns has that count as Mode.Replicated.Replicas.
C14_ReplicasAreSet ==
  (Applied /\ ~mErr /\ mOpts.replicas.t = "number") => mSpec.Replicas = mOpts.replicas

\* The shape of every key the schema names is right.
KnownKeysWellShaped(o) == o.replicas.t # "string"

\* C15 as stated: a key outside the schema is ignored: with well-shaped known
\* keys next to it adjustSpec does not throw and applies them as without it.
C15_UnknownKeysIgnored ==
  (Applied /\ mOpts.extra.t # "absent" /\ KnownKeysWellShaped(mOpts)) =>
    /\ ~mErr
    /\ mSpec = adjustSpec(mPrev, [mOpts EXCEPT !.extra = Absent]).spec

\* C15 amended: a key outside the schema is rejected: adjustSpec throws the
\* validation error and applies none of the keys, whatever known keys are next
\* to it; options of well-shaped known keys alone do not throw.
C15_UnknownKeysRejected ==
  Applied =>
    /\ mOpts.extra.t # "absent" => (mErr /\ mSpec = mPrev)
    /\ mErr <=> (mOpts.extra.t # "absent" \/ ~KnownKeysWellShaped(mOpts))

\* An unknown key next to replicas: 2; the spec keeps its replicas.
C15_Witness ==
  /\ Applied
  /\ mOpts.extra.t # "absent"
  /\ mOpts.replicas = Num(2)
  /\ mErr
  /\ mPrev.Replicas = Num(3)
  /\ mSpec.Replicas = Num(3)

\* The environment the claim describes, as the set of its KEY=VALUE strings.
EnvBefore == IF mPrev.Env.t = "absent" THEN {} ELSE Range(mPrev.Env.a)
OverlayKeys == IF mOpts.env.t = "object" THEN DOMAIN mOpts.env.m ELSE {}
RemovedKeys == IF mOpts.envRemove.t = "array" THEN Range(mOpts.envRemove.a) ELSE {}
EnvExpected ==
  {e \in EnvBefore : <<e[1]>> \notin (OverlayKeys \cup RemovedKeys)}
    \cup {Chars(k, mOpts.env.m[k]) : k \in OverlayKeys \ RemovedKeys}

\* C17: with env or envRemove in the options the environment adjustSpec yields
\* is the current one as a map, overlaid with env (env winning), minus the keys
\* of envRemove, each key once.
C17_EnvOverlayThenRemove ==
  (Applied /\ ~mErr /\ (mOpts.env.t # "absent" \/ mOpts.envRemove.t # "absent")) =>
    /\ mSpec.Env.t = "array"
    /\ Range(mSpec.Env.a) = EnvExpected
    /\ Len(mSpec.Env.a) = Cardinality(EnvExpected)

\* [A=0, B=2] with env {A: 1} and envRemove [B] gives [A=1].
C17_Witness ==
  /\ Applied
  /\ ~mErr
  /\ mPrev.Env = Arr(<<Chars(KeyA, <<"0">>), Chars(KeyB, <<"2">>)>>)
  /\ mOpts.env = Obj([k \in {KeyA} |-> <<"1">>])
  /\ mOpts.envRemove = Arr(<<KeyB>>)
  /\ mSpec.Env = Arr(<<Chars(KeyA, <<"1">>)>>)


\* -------------------------------- two callers of update/adjust on a service
NumClients == 2          \* callers working on the same service at once

Clients == 1..NumClients

\* What the orchestrator stores for a submitted spec, as get(name) shows it:
\* a spec without Mode gets Replicas 1 and its ForceUpdate is 0. (Labels here
\* are the ContainerSpec's; the orchestrator leaves them as submitted.)
Normalise(spec) ==
  [Image |-> spec.Image,
   Env |-> spec.Env,
   Labels |-> spec.Labels,
   Replicas |-> IF spec.Replicas = Absent THEN Num(1) ELSE spec.Replicas,
   ForceUpdate |-> IF spec.ForceUpdate = Absent THEN Num(0) ELSE spec.ForceUpdate]

\* The services that exist at the start: created with Replicas 3.
CreatedSpecs ==
  [Image : {<<"a">>}, Env : {Absent, Arr(<<Chars(KeyB, <<"2">>)>>)}, Labels : {Absent},
   Replicas : {Num(3)}, ForceUpdate : {Absent}]

\* The specs update is called with.
UpdateSpecs ==
  [Image : {<<"b">>}, Env : {Absent, Arr(<<Chars(KeyA, <<"1">>)>>)}, Labels : {Absent},
   Replicas : {Absent, Num(2)}, ForceUpdate : {Absent}]

\* The options adjust is called with.
TwoOptions ==
  {[NoOptions EXCEPT !.replicas = Num(2)],
   [NoOptions EXCEPT !.force = Bool(TRUE)],
   [NoOptions EXCEPT !.extra = Str("x")]}

IdleClient ==
  [pc |-> "idle", kind |-> "none", spec |-> Absent, opts |-> NoOptions,
   readVer |-> 0, stamped |-> 0, error |-> "none", submits |-> 0]

TwoInit ==
  /\ MainIdle
  /\ MergeIdle
  /\ oSpec \in {Normalise(sp) : sp \in CreatedSpecs}
  /\ oVersion = 0
  /\ clients = [c \in Clients |-> IdleClient]
  /\ applied = <<>>

\* update(spec): the call, up to the two reads
ClientUpdate ==
  \E c \in Clients, sp \in UpdateSpecs :
    /\ clients[c].pc = "idle"
    /\ clients' = [clients EXCEPT ![c] = [@ EXCEPT !.pc = "get", !.kind = "update", !.spec = sp]]
    /\ UNCHANGED <<oSpec, oVersion, applied, mainVars, mergeVars>>

\* adjust(name, options): the call, up to the two reads
ClientAdjust ==
  \E c \in Clients, o \in TwoOptions :
    /\ clients[c].pc = "idle"
    /\ clients' = [clients EXCEPT ![c] = [@ EXCEPT !.pc = "get", !.kind = "adjust", !.opts = o]]
    /\ UNCHANGED <<oSpec, oVersion, applied, mainVars, mergeVars>>

\* update's payload: the caller's spec; the spec it read is not used
SubmittedSpec_Merged(callerSpec, originalSpec) ==
  [callerSpec EXCEPT !.Replicas = IF @ = Absent THEN originalSpec.Replicas ELSE @]

SubmittedSpec(callerSpec, originalSpec) == callerSpec

\* spec.version: the Version.Index that this operation's get(name) returned
StampedVersion_Current(readVersionIndex, currentIndex) == currentIndex

StampedVersion(readVersionIndex, currentIndex) == readVersionIndex

\* this.get(name) answers: update keeps Version.Index, adjust also builds the
\* new spec from the Spec it read (adjustSpec throws before service.update).
ClientGet ==
  \E c \in Clients :
    LET cl == clients[c]
        adj == adjustSpec(oSpec, cl.opts)
    IN
    /\ cl.pc = "get"
    /\ clients' = [clients EXCEPT ![c] =
         IF cl.kind = "update"
           THEN [cl EXCEPT !.pc = "serviceUpdate", !.readVer = oVersion,
                           !.spec = SubmittedSpec(cl.spec, oSpec)]
           ELSE IF adj.error
             THEN [cl EXCEPT !.pc = "done", !.readVer = oVersion, !.error = "validation"]
             ELSE [cl EXCEPT !.pc = "serviceUpdate", !.readVer = oVersion, !.spec = adj.spec]]
    /\ UNCHANGED <<oSpec, oVersion, applied, mainVars, mergeVars>>

\* service.update(spec): the orchestrator takes the spec if its version is the
\* service's current one and moves the version on; otherwise the call rejects
\* and the operation ends with that error.
ClientServiceUpdate ==
  \E c \in Clients :
    LET cl == clients[c]
        token == StampedVersion(cl.readVer, oVersion)
    IN
    /\ cl.pc = "serviceUpdate"
    /\ IF token = oVersion
         THEN /\ oSpec' = Normalise(cl.spec)
              /\ oVersion' = oVersion + 1
              /\ applied' = Append(applied, [client |-> c, token |-> token, spec |-> cl.spec])
              /\ clients' = [clients EXCEPT ![c] =
                   [cl EXCEPT !.pc = "done", !.stamped = token, !.submits = @ + 1]]
         ELSE /\ clients' = [clients EXCEPT ![c] =
                   [cl EXCEPT !.pc = "done", !.stamped = token, !.submits = @ + 1,
                              !.error = "VersionConflict"]]
              /\ UNCHANGED <<oSpec, oVersion, applied>>
    /\ UNCHANGED <<mainVars, mergeVars>>

TwoNext == ClientUpdate \/ ClientAdjust \/ ClientGet \/ ClientServiceUpdate

TwoSpec == TwoInit /\ [][TwoNext]_vars

\* ------------------------------------------------- claims on the data path
\* C11: an update that is accepted submits the caller's spec as it is, with the
\* version token the operation read, and nothing of the stored spec is carried
\* over: the service then shows the submitted image and env, and Replicas 1
\* when the submitted spec has no replica count.
C11_UpdateSubmitsCallerSpec ==
  [][/\ \A c \in Clients :
       (/\ clients[c].kind = "update"
        /\ clients[c].pc = "get"
        /\ clients'[c].pc = "serviceUpdate") =>
          clients'[c].spec = clients[c].spec
     /\ \A c \in Clients :
       (/\ clients[c].kind = "update"
        /\ clients[c].pc = "serviceUpdate"
        /\ clients'[c].pc = "done"
        /\ clients'[c].error = "none") =>
          /\ applied'[Len(applied')] =
               [client |-> c, token |-> oVersion, spec |-> clients[c].spec]
          /\ clients[c].readVer = oVersion
          /\ oSpec'.Image = clients[c].spec.Image
          /\ oSpec'.Env = clients[c].spec.Env
          /\ clients[c].spec.Replicas = Absent => oSpec'.Replicas = Num(1)
          /\ clients[c].spec.Replicas # Absent => oSpec'.Replicas = clients[c].spec.Replicas]_vars

\* Created with Replicas 3, updated with env A=1 and no replica count.
C11_Witness ==
  /\ Len(applied) = 1
  /\ clients[applied[1].client].kind = "update"
  /\ applied[1].spec.Replicas = Absent
  /\ applied[1].spec.Env = Arr(<<Chars(KeyA, <<"1">>)>>)
  /\ oSpec.Image = <<"b">>
  /\ oSpec.Env = Arr(<<Chars(KeyA, <<"1">>)>>)
  /\ oSpec.Replicas = Num(1)

Submitted(c) == clients[c].pc = "done" /\ clients[c].submits > 0

\* C18: of the operations that read the same version token, at most one is
\* applied: each submits once, with the token it read; a token is accepted
\* once; the others end with the version conflict, and the stored spec is the
\* one of the last accepted submission.
C18_SameTokenAppliedOnce ==
  /\ \A i, j \in DOMAIN applied : applied[i].token = applied[j].token => i = j
  /\ oVersion = Len(applied)
  /\ applied # <<>> => oSpec = Normalise(applied[Len(applied)].spec)
  /\ \A c \in Clients : clients[c].submits <= 1
  /\ \A c \in Clients :
       Submitted(c) =>
         /\ clients[c].stamped = clients[c].readVer
         /\ clients[c].error \in {"none", "VersionConflict"}
         /\ clients[c].error = "none" <=>
              \E i \in DOMAIN applied :
                applied[i].client = c /\ applied[i].token = clients[c].readVer
  /\ \A c, d \in Clients :
       (c # d /\ Submitted(c) /\ Submitted(d) /\ clients[c].readVer = clients[d].readVer) =>
          "VersionConflict" \in {clients[c].error, clients[d].error}

\* Both read token 0, the first submission was taken, the second rejected.
C18_Witness ==
  /\ clients[1].readVer = clients[2].readVer
  /\ Submitted(1)
  /\ Submitted(2)
  /\ clients[1].error = "VersionConflict"
  /\ clients[2].error = "none"
  /\ clients[1].kind = "update"
  /\ clients[2].kind = "adjust"
  /\ Len(applied) = 1

====
